---- MODULE Spec2Model ----
(***************************************************************************)
(* A model of video_metadata.py: the VideoMetadata result container (its   *)
(* constructor, its cursor, slicing and field accessors) and the           *)
(* gap-filling reconciler _mark_unavailable_videos.                        *)
(*                                                                         *)
(* Python values are modelled as follows.  A str is a sequence of          *)
(* characters where the code iterates or joins it (the video ids), and a   *)
(* TLA+ string where it is only stored and returned (the snippet fields).  *)
(* A dict is a record whose DOMAIN is the set of its keys.  None is the    *)
(* record None below.  A call's outcome carries `exc`, the name of the     *)
(* exception it ended in, or "None" when it returned.                      *)
(***************************************************************************)
EXTENDS Integers, Sequences, FiniteSets, TLC

\* The longest list of requested ids.
MaxReq == 3
\* The longest single id passed as one string.
MaxIdLen == 2
\* The longest `items` list of a pre-fetched response.
MaxJson == 1

\* The characters ids are made of.
Chars == {"a", "b", "c", "d"}

None == [NoneType |-> TRUE]

SeqsUpTo(S, n) == UNION {[1..k -> S] : k \in 0..n}

Min(x, y) == IF x <= y THEN x ELSE y

(***************************************************************************)
(* The inputs of the constructor.                                          *)
(***************************************************************************)
Str(s) == [type |-> "str", val |-> s]
List(l) == [type |-> "list", val |-> l]

\* The ids a list of requested ids is drawn from.
Ids == {<<c>> : c \in Chars}

\* video_id: Union[str, list], '' by default.
VideoIds ==
    {Str(s) : s \in SeqsUpTo(Chars, MaxIdLen)} \cup {List(l) : l \in SeqsUpTo(Ids, MaxReq)}

DevKeys == {"", "key"}

\* The client the caller passes, or the one build() returns.
Resource == [Resource |-> "youtube"]
Clients == {None, Resource}

\* len(x) and bool(x) of a str or a list.
len(x) == Len(x.val)
Truthy(x) == len(x) > 0

\* iter(x): a list gives its elements, a str its characters, each a str of length 1.
IterElems(x) ==
    IF x.type = "str" THEN [i \in 1..Len(x.val) |-> <<x.val[i]>>] ELSE x.val

(***************************************************************************)
(* The remote service.                                                     *)
(***************************************************************************)
FullSnippet ==
    [categoryId |-> "24", channelId |-> "UCa", channelTitle |-> "chan a",
     title |-> "title a", description |-> "descr a", publishedAt |-> "2019-01-01",
     tags |-> <<"k1", "k2">>]

NoTagsSnippet ==
    [categoryId |-> "34", channelId |-> "UCb",
     title |-> "title b", description |-> "descr b", publishedAt |-> "2019-02-02"]

NoChannelSnippet ==
    [categoryId |-> "23", channelTitle |-> "chan c", tags |-> <<"k3">>,
     title |-> "title c", description |-> "descr c", publishedAt |-> "2019-03-03"]

BareSnippet ==
    [title |-> "title d", description |-> "descr d", publishedAt |-> "2019-04-04"]

\* The record the service holds for an id: items(id, snippet(...)).
Video(id) ==
    CASE id[1] = "a" -> [id |-> id, snippet |-> FullSnippet]
      [] id[1] = "b" -> [id |-> id, snippet |-> NoTagsSnippet]
      [] id[1] = "c" -> [id |-> id, snippet |-> NoChannelSnippet]
      [] OTHER -> [id |-> id, snippet |-> BareSnippet]

\* A record as a response asked without the snippet part holds it.
IdOnly(id) == [id |-> id]

\* json: Optional[dict], a raw response {"items": [...]}.
JsonRecords == {IdOnly(<<"a">>)}
Jsons == {None} \cup {[items |-> l] : l \in SeqsUpTo(JsonRecords, MaxJson)}

RECURSIVE Join(_)
\* ','.join(ids)
Join(ids) ==
    IF Len(ids) = 0 THEN <<>>
    ELSE IF Len(ids) = 1 THEN ids[1]
    ELSE ids[1] \o <<",">> \o Join(Tail(ids))

\* _convert_list_to_comma_string
_convert_list_to_comma_string(ids) ==
    IF ids.type = "str" THEN ids.val ELSE Join(ids.val)

RECURSIVE Split(_, _)
\* The service's reading of the id parameter: s.split(','), cur the id being read.
Split(s, cur) ==
    IF Len(s) = 0 THEN <<cur>>
    ELSE IF Head(s) = "," THEN <<cur>> \o Split(Tail(s), <<>>)
    ELSE Split(Tail(s), Append(cur, Head(s)))

RECURSIVE SortedSeq(_)
\* The members of a set of positions in increasing order.
SortedSeq(P) ==
    IF P = {} THEN <<>>
    ELSE LET m == CHOOSE x \in P : \A y \in P : x <= y
         IN <<m>> \o SortedSeq(P \ {m})

\* client.videos().list(part, fields, id).execute()["items"]: the records of the
\* ids the service resolves, in the order requested, no id twice.
VideosList(idString) ==
    LET req == Split(idString, <<>>)
        Picks == {P \in SUBSET (1..Len(req)) :
                    /\ \A i \in P : Len(req[i]) > 0
                    /\ \A i, j \in P : i # j => req[i] # req[j]}
    IN {[k \in 1..Cardinality(P) |-> Video(req[SortedSeq(P)[k]])] : P \in Picks}

(***************************************************************************)
(* _mark_unavailable_videos                                                *)
(***************************************************************************)
RECURSIVE MatchLoopNoFill(_, _, _, _, _)
\* MatchLoop without the second loop: the requests after the last match get no marker.
MatchLoopNoFill(req, pos, vids_result, k, some_info) ==
    IF k > Len(vids_result)
    THEN [exc |-> "None", val |-> some_info]
    ELSE IF pos >= Len(req)
    THEN [exc |-> "StopIteration", val |-> <<>>]
    ELSE IF req[pos + 1] = vids_result[k].id
    THEN MatchLoopNoFill(req, pos + 1, vids_result, k + 1, Append(some_info, vids_result[k]))
    ELSE MatchLoopNoFill(req, pos + 1, vids_result, k, Append(some_info, None))

RECURSIVE MatchLoop(_, _, _, _, _)
\* The two loops: `pos` elements of the request iterator are consumed, vids_result[k]
\* is the record being matched, some_info is the list built so far.
MatchLoop(req, pos, vids_result, k, some_info) ==
    IF k > Len(vids_result)
    THEN [exc |-> "None",
          val |-> some_info \o [i \in 1..(Len(req) - pos) |-> None]]
    ELSE IF pos >= Len(req)
    THEN [exc |-> "StopIteration", val |-> <<>>]
    ELSE IF req[pos + 1] = vids_result[k].id
    THEN MatchLoop(req, pos + 1, vids_result, k + 1, Append(some_info, vids_result[k]))
    ELSE MatchLoop(req, pos + 1, vids_result, k, Append(some_info, None))

\* _mark_unavailable_videos filling the no-result case by the length of the result.
MarkUnavailableByResultLength(vids_requested, vids_result) ==
    IF Len(vids_result) = 0
    THEN [exc |-> "None", val |-> [i \in 1..Len(vids_result) |-> None]]
    ELSE MatchLoop(IterElems(vids_requested), 0, vids_result, 1, <<>>)

_mark_unavailable_videos(vids_requested, vids_result) ==
    IF Len(vids_result) = 0
    THEN [exc |-> "None", val |-> [i \in 1..len(vids_requested) |-> None]]
    ELSE MatchLoop(IterElems(vids_requested), 0, vids_result, 1, <<>>)

(***************************************************************************)
(* VideoMetadata.__init__                                                  *)
(***************************************************************************)
\* A construction that ended in exception e after `calls` calls of the list operation.
Failed(e, calls) ==
    [exc |-> e, _index_next_video |-> 0, client |-> None,
     _current_metadata |-> None, _multi_metadata |-> <<>>, listed |-> calls]

\* _get_video_metadata, `result` being what the list operation returns.
_get_video_metadata(yt_id, result) ==
    LET m == _mark_unavailable_videos(yt_id, result)
    IN IF m.exc # "None" THEN [exc |-> m.exc, multi |-> <<>>, current |-> None]
       ELSE IF Len(m.val) = 0 THEN [exc |-> "IndexError", multi |-> <<>>, current |-> None]
       ELSE [exc |-> "None", multi |-> m.val, current |-> m.val[1]]

\* VideoMetadata(video_id, dev_key, json, client), `result` being what the list
\* operation returns if it is called.  A json dict holds "items", so `if json:`
\* is the test that it is not None.
VideoMetadata(video_id, dev_key, json, cl, result) ==
    IF cl = None /\ dev_key = ""
    THEN Failed("ValueError", 0)
    ELSE LET got == IF Truthy(video_id)
                    THEN _get_video_metadata(video_id, result)
                    ELSE [exc |-> "None", multi |-> <<>>, current |-> None]
             calls == IF Truthy(video_id) THEN 1 ELSE 0
         IN IF got.exc # "None"
            THEN Failed(got.exc, calls)
            ELSE [exc |-> "None",
                  _index_next_video |-> 0,
                  client |-> IF cl # None THEN cl ELSE Resource,
                  _current_metadata |-> got.current,
                  _multi_metadata |-> IF json # None THEN json.items ELSE got.multi,
                  listed |-> calls]

(***************************************************************************)
(* The accessors, as functions of the current record.                      *)
(***************************************************************************)
Return(v) == [exc |-> "None", val |-> v]
Raise(e) == [exc |-> e]

\* bool(d) of a dict or None.
DictTruthy(d) == d # None /\ DOMAIN d # {}

\* d[k1][k2], d a dict or None.
Subscript2(d, k1, k2) ==
    IF d = None THEN Raise("TypeError")
    ELSE IF k1 \notin DOMAIN d THEN Raise("KeyError")
    ELSE IF k2 \notin DOMAIN d[k1] THEN Raise("KeyError")
    ELSE Return(d[k1][k2])

\* The accessor's body without its try/except.
NoExcept(r, default) == r

\* try: return <r> except KeyError: return default
ExceptKeyError(r, default) == IF r.exc = "KeyError" THEN Return(default) ELSE r

_CATEGORY_ID_TO_NAME ==
    ("1" :> "Film & Animation") @@ ("2" :> "Autos & Vehicles") @@ ("10" :> "Music") @@
    ("15" :> "Pets & Animals") @@ ("17" :> "Sports") @@ ("18" :> "ShortMovies") @@
    ("19" :> "Travel & Events") @@ ("20" :> "Gaming") @@ ("21" :> "Videoblogging") @@
    ("22" :> "People & Blogs") @@ ("23" :> "Comedy") @@ ("24" :> "Entertainment") @@
    ("25" :> "News & Politics") @@ ("26" :> "Howto & Style") @@ ("27" :> "Education") @@
    ("28" :> "Science & Technology") @@ ("29" :> "Nonprofits & Activism") @@
    ("30" :> "Movies") @@ ("31" :> "Anime/Animation") @@ ("32" :> "Action/Adventure") @@
    ("33" :> "Classics") @@ ("34" :> "Comedy") @@ ("35" :> "Documentary") @@
    ("36" :> "Drama") @@ ("37" :> "Family") @@ ("38" :> "Foreign") @@ ("39" :> "Horror") @@
    ("40" :> "Sci-Fi/Fantasy") @@ ("41" :> "Thriller") @@ ("42" :> "Shorts") @@
    ("43" :> "Shows") @@ ("44" :> "Trailers")

\* available() that answers True whatever the current record is.
AvailableAlways(cur) == TRUE

available(cur) == IF DictTruthy(cur) THEN TRUE ELSE FALSE

id(cur) ==
    IF cur = None THEN Raise("TypeError")
    ELSE IF "id" \notin DOMAIN cur THEN Raise("KeyError")
    ELSE Return(cur.id)

category_id(cur) ==
    IF cur = None THEN Raise("AttributeError")
    ELSE IF "snippet" \notin DOMAIN cur THEN Return("")
    ELSE IF "categoryId" \notin DOMAIN cur.snippet THEN Return("")
    ELSE Return(cur.snippet.categoryId)

\* category_name returning the code unresolved.
CategoryNameIsCode(cur) == category_id(cur)

category_name(cur) ==
    LET cid == category_id(cur)
    IN IF cid.exc # "None" THEN cid
       ELSE IF cid.val \notin DOMAIN _CATEGORY_ID_TO_NAME THEN Raise("KeyError")
       ELSE Return(_CATEGORY_ID_TO_NAME[cid.val])

channel_id(cur) == ExceptKeyError(Subscript2(cur, "snippet", "channelId"), "")

channel_title(cur) == ExceptKeyError(Subscript2(cur, "snippet", "channelTitle"), "")

title(cur) == Subscript2(cur, "snippet", "title")

keywords(cur) == ExceptKeyError(Subscript2(cur, "snippet", "tags"), <<>>)

description(cur) == Subscript2(cur, "snippet", "description")

time_published(cur) == Subscript2(cur, "snippet", "publishedAt")

(***************************************************************************)
(* The state: one container, from its construction on.                     *)
(***************************************************************************)
VARIABLES
    pc,                 \* "start" before the constructor ran, then "live", or "failed" if it raised
    _index_next_video,  \* the container's fields
    client,
    _current_metadata,
    _multi_metadata,
    raised,             \* the exception the last constructor or traversal call ended in
    call,               \* the arguments the constructor was called with
    result,             \* what the list operation returned, <<>> if it was not called
    listed,             \* the calls of the list operation so far
    sliced,             \* what the last __getitem__ call made, None before the first
    advances,           \* the __next__ calls since the last __iter__ call or the construction
    pattern             \* how far the last calls spell __iter__, __next__, __next__, __iter__

vars ==
    <<pc, _index_next_video, client, _current_metadata, _multi_metadata, raised,
      call, result, listed, sliced, advances, pattern>>

fields == <<_index_next_video, client, _current_metadata, _multi_metadata>>
args == <<call, result, listed>>

\* The calls the model follows a traversal for without a reset.
MaxAdvance == MaxReq + 2

Init ==
    /\ pc = "start"
    /\ _index_next_video = 0
    /\ client = None
    /\ _current_metadata = None
    /\ _multi_metadata = <<>>
    /\ raised = "None"
    /\ call = None
    /\ result = <<>>
    /\ listed = 0
    /\ sliced = None
    /\ advances = 0
    /\ pattern = 0

\* VideoMetadata(video_id=v, dev_key=k, json=j, client=c); the service answers r.
New(v, k, j, c, r) ==
    /\ pc = "start"
    /\ LET self == VideoMetadata(v, k, j, c, r)
       IN /\ pc' = IF self.exc = "None" THEN "live" ELSE "failed"
          /\ raised' = self.exc
          /\ _index_next_video' = self._index_next_video
          /\ client' = self.client
          /\ _current_metadata' = self._current_metadata
          /\ _multi_metadata' = self._multi_metadata
          /\ listed' = self.listed
          /\ result' = IF self.listed > 0 THEN r ELSE <<>>
    /\ call' = [video_id |-> v, dev_key |-> k, json |-> j, client |-> c]
    /\ UNCHANGED <<sliced, advances, pattern>>

\* The constructor called with any arguments, the service resolving any of the ids.
Construct ==
    /\ pc = "start"
    /\ \E v \in VideoIds, k \in DevKeys, j \in Jsons, c \in Clients :
          \E r \in VideosList(_convert_list_to_comma_string(v)) : New(v, k, j, c, r)

\* __iter__ that leaves the index where it is.
IterKeepsIndex ==
    /\ pc = "live"
    /\ raised' = "None"
    /\ advances' = 0
    /\ pattern' = IF pattern = 3 THEN 4 ELSE 1
    /\ UNCHANGED <<pc, fields, args, sliced>>

\* __iter__
Iter ==
    /\ pc = "live"
    /\ _index_next_video' = 0
    /\ raised' = "None"
    /\ advances' = 0
    /\ pattern' = IF pattern = 3 THEN 4 ELSE 1
    /\ UNCHANGED <<pc, client, _current_metadata, _multi_metadata, args, sliced>>

\* __next__ that increments the index before it reads the batch.
AdvanceIncrementsFirst ==
    /\ pc = "live"
    /\ advances < MaxAdvance
    /\ _index_next_video' = _index_next_video + 1
    /\ IF _index_next_video < Len(_multi_metadata)
       THEN /\ _current_metadata' = _multi_metadata[_index_next_video + 1]
            /\ raised' = "None"
       ELSE /\ raised' = "StopIteration"
            /\ UNCHANGED _current_metadata
    /\ advances' = advances + 1
    /\ pattern' = IF pattern \in {1, 4} THEN 2 ELSE IF pattern = 2 THEN 3 ELSE 0
    /\ UNCHANGED <<pc, client, _multi_metadata, args, sliced>>

\* __next__
Advance ==
    /\ pc = "live"
    /\ advances < MaxAdvance
    /\ IF _index_next_video < Len(_multi_metadata)
       THEN /\ _current_metadata' = _multi_metadata[_index_next_video + 1]
            /\ _index_next_video' = _index_next_video + 1
            /\ raised' = "None"
       ELSE /\ raised' = "StopIteration"
            /\ UNCHANGED <<_current_metadata, _index_next_video>>
    /\ advances' = advances + 1
    /\ pattern' = IF pattern \in {1, 4} THEN 2 ELSE IF pattern = 2 THEN 3 ELSE 0
    /\ UNCHANGED <<pc, client, _multi_metadata, args, sliced>>

\* __getitem__(slice(a, b))
Getitem(a, b) ==
    /\ pc = "live"
    /\ 0 <= a /\ a <= b /\ b <= Len(_multi_metadata)
    /\ sliced' = VideoMetadata(Str(<<>>), "", [items |-> SubSeq(_multi_metadata, a + 1, b)],
                               None, <<>>)
    /\ UNCHANGED <<pc, fields, raised, args, advances, pattern>>

\* __getitem__ with any range of the batch
Slice ==
    /\ pc = "live"
    /\ \E a, b \in 0..Len(_multi_metadata) : Getitem(a, b)

Next ==
    \/ Construct
    \/ Iter
    \/ Advance
    \/ Slice

Spec == Init /\ [][Next]_vars

(***************************************************************************)
(* Properties.                                                             *)
(***************************************************************************)
\* The container was built by a fetch and nothing replaced the reconciled batch.
Fetched == pc # "start" /\ listed = 1 /\ call.json = None

\* The requested ids as the reconciler reads them, and the records returned.
R == IterElems(call.video_id)
S == result

\* The reconciler's precondition: S is duplicate-free, and its ids are those of an
\* order-preserving subsequence of R.
Precondition ==
    /\ \A i, j \in 1..Len(S) : i # j => S[i].id # S[j].id
    /\ \E P \in SUBSET (1..Len(R)) :
          /\ Cardinality(P) = Len(S)
          /\ \A k \in 1..Len(S) : S[k].id = R[SortedSeq(P)[k]]

IsRecord(x) == x # None
NoneCount(l) == Cardinality({i \in 1..Len(l) : l[i] = None})

\* The container as the constructor left it.
Constructed ==
    VideoMetadata(call.video_id, call.dev_key, call.json, call.client, result)

\* C1: for R and S meeting the precondition, _mark_unavailable_videos(R, S) returns
\* a list of length len(R), and a record at position i of it has the id R[i].
C1_LengthAndAlignment ==
    (Fetched /\ Precondition) =>
        /\ pc = "live"
        /\ Len(_multi_metadata) = Len(R)
        /\ \A i \in 1..Len(_multi_metadata) :
              IsRecord(_multi_metadata[i]) => _multi_metadata[i].id = R[i]

\* C1 witness: three ids requested, the first and the third resolved.
C1_Witness ==
    /\ Fetched /\ Precondition /\ pc = "live"
    /\ Len(R) = 3 /\ Len(S) = 2
    /\ IsRecord(_multi_metadata[1]) /\ ~IsRecord(_multi_metadata[2])
    /\ IsRecord(_multi_metadata[3])

\* C2: for R and S meeting the precondition, the records of the output, left to
\* right, are S, so len(R) - len(S) positions are None; for an empty S the output
\* is len(R) times None.
C2_RecordsAreTheReturned ==
    (Fetched /\ Precondition) =>
        /\ pc = "live"
        /\ SelectSeq(_multi_metadata, IsRecord) = S
        /\ NoneCount(_multi_metadata) = Len(R) - Len(S)
        /\ (Len(S) = 0 =>
              _multi_metadata = [i \in 1..Len(R) |-> None])

\* C2 witness: an id skipped before the match and one left after it.
C2_Witness ==
    /\ Fetched /\ Precondition /\ pc = "live"
    /\ Len(R) = 3 /\ Len(S) = 1
    /\ ~IsRecord(_multi_metadata[1]) /\ IsRecord(_multi_metadata[2])
    /\ ~IsRecord(_multi_metadata[3])

\* C3: C[a:b] is a new container of length b - a whose record at position k is
\* the record at position a + k of C.
C3_SlicePreservesContent ==
    [][\A a, b \in 0..Len(_multi_metadata) :
          Getitem(a, b) =>
              /\ sliced'.exc = "None"
              /\ Len(sliced'._multi_metadata) = b - a
              /\ \A k \in 1..(b - a) :
                    sliced'._multi_metadata[k] = _multi_metadata[a + k]]_vars

\* C4: with json supplied the list operation is never called, whatever the other
\* arguments, and the construction with json alone succeeds with json's items.
C4_JsonBypassesFetch ==
    (pc # "start" /\ call.json # None) =>
        /\ listed = 0
        /\ (~Truthy(call.video_id) /\ call.dev_key = "" /\ call.client = None) =>
              /\ pc = "live"
              /\ _multi_metadata = call.json.items

\* The ids a video_id argument requests: a list its elements, a string one id.
RequestedCount(v) == IF v.type = "str" THEN 1 ELSE Len(v.val)

\* C5: after a construction by fetch the batch is as long as the ids requested
\* are many, a string being one id whose record, if resolved, is at position 0.
C5_BatchLengthIsRequestCount ==
    Fetched =>
        /\ pc = "live"
        /\ Len(_multi_metadata) = RequestedCount(call.video_id)
        /\ (call.video_id.type = "str" /\ Len(S) = 1) => _multi_metadata[1] = S[1]

\* C6 as claimed: the codes "24" and "34" both give "Comedy".
C6_Codes24And34AreComedy ==
    (pc = "live" /\ category_id(_current_metadata) \in {Return("24"), Return("34")}) =>
        category_name(_current_metadata) = Return("Comedy")

\* C6 as amended: the codes "23" and "34" both give "Comedy", and the code "24"
\* gives "Entertainment".
C6_Codes23And34AreComedy ==
    /\ (pc = "live" /\ category_id(_current_metadata) \in {Return("23"), Return("34")}) =>
          category_name(_current_metadata) = Return("Comedy")
    /\ (pc = "live" /\ category_id(_current_metadata) = Return("24")) =>
          category_name(_current_metadata) = Return("Entertainment")

\* C6 witness: the current record has the code "23", another of the batch "34".
C6_Witness ==
    /\ pc = "live" /\ advances >= 1
    /\ category_id(_current_metadata) = Return("23")
    /\ category_name(_current_metadata) = Return("Comedy")
    /\ \E i \in 1..Len(_multi_metadata) :
          category_id(_multi_metadata[i]) = Return("34")

Faults(r) == r.exc # "None"

\* C7: in a fetched container, when the current record is an unresolved position
\* available() is false and id, title, description and time_published fault;
\* when it is a resolved one available() is true.
C7_AvailableTellsResolved ==
    (Fetched /\ pc = "live") =>
        /\ ~IsRecord(_current_metadata) =>
              /\ available(_current_metadata) = FALSE
              /\ Faults(id(_current_metadata))
              /\ Faults(title(_current_metadata))
              /\ Faults(description(_current_metadata))
              /\ Faults(time_published(_current_metadata))
        /\ IsRecord(_current_metadata) => available(_current_metadata) = TRUE

\* C7 witness: the traversal of [A, B, C] with A and C resolved stands at B.
C7_Witness ==
    /\ Fetched /\ pc = "live"
    /\ Len(_multi_metadata) = 3 /\ advances = 2 /\ _index_next_video = 2
    /\ IsRecord(_multi_metadata[1]) /\ IsRecord(_multi_metadata[3])
    /\ _current_metadata = None
    /\ available(_current_metadata) = FALSE

HasField(cur, k) == "snippet" \in DOMAIN cur /\ k \in DOMAIN cur.snippet

\* The accessor's outcome r is the stored field k, or the default if it is missing.
Degrades(cur, r, k, default) ==
    r = IF HasField(cur, k) THEN Return(cur.snippet[k]) ELSE Return(default)

\* C8: on a present current record keywords, category_id, channel_id and
\* channel_title never fault: each gives the stored value, or the empty list
\* (keywords) or the empty string if the snippet or the field is missing.
C8_OptionalFieldsDegrade ==
    (pc = "live" /\ IsRecord(_current_metadata)) =>
        /\ Degrades(_current_metadata, keywords(_current_metadata), "tags", <<>>)
        /\ Degrades(_current_metadata, category_id(_current_metadata), "categoryId", "")
        /\ Degrades(_current_metadata, channel_id(_current_metadata), "channelId", "")
        /\ Degrades(_current_metadata, channel_title(_current_metadata), "channelTitle", "")

\* C8 witness: the current record's snippet has a channel id and no tags, and the
\* batch also holds a record with no snippet at all or one with every field.
C8_Witness ==
    /\ pc = "live" /\ advances >= 1
    /\ IsRecord(_current_metadata)
    /\ HasField(_current_metadata, "channelId")
    /\ "snippet" \in DOMAIN _current_metadata
    /\ ~HasField(_current_metadata, "tags")
    /\ keywords(_current_metadata) = Return(<<>>)
    /\ channel_id(_current_metadata) = Return(_current_metadata.snippet.channelId)

\* C8 second witness: the current record has no snippet at all.
C8_WitnessNoSnippet ==
    /\ pc = "live" /\ advances >= 1
    /\ IsRecord(_current_metadata)
    /\ "snippet" \notin DOMAIN _current_metadata
    /\ channel_title(_current_metadata) = Return("")

\* C9: on a container of at least two records, after __iter__, __next__,
\* __next__, __iter__ the cursor is where the constructor left it.
C9_ResetRestoresCursor ==
    (pc = "live" /\ pattern = 4 /\ Len(_multi_metadata) >= 2) =>
        _index_next_video = Constructed._index_next_video

\* C9 witness: the four calls are made and both advances moved the cursor.
C9_Witness ==
    /\ pc = "live" /\ pattern = 4 /\ Len(_multi_metadata) >= 2
    /\ _current_metadata = _multi_metadata[2]
    /\ _index_next_video = 0

\* C10: with n records, the k-th advance after a reset (or the construction)
\* makes position k - 1 current for k <= n; every later advance signals
\* StopIteration and leaves cursor and current record; the cursor is in 0..n.
C10_Traversal ==
    pc = "live" =>
        LET n == Len(_multi_metadata)
            k == Min(advances, n)
        IN /\ _index_next_video \in 0..n
           /\ _index_next_video = k
           /\ k >= 1 => _current_metadata = _multi_metadata[k]
           /\ n = 0 => _current_metadata = Constructed._current_metadata
           /\ (raised = "StopIteration") <=> (advances > n)

\* C10 witness: a traversal of three records has advanced five times, twice past
\* the end.
C10_Witness ==
    /\ pc = "live"
    /\ Len(_multi_metadata) = 3 /\ advances = 5
    /\ raised = "StopIteration"
    /\ _index_next_video = 3
    /\ _current_metadata = _multi_metadata[3]

====
